---------------------------- MODULE Spec2Model ----------------------------
(***************************************************************************)
(* A model of exercise-parsing/nlparse2.py: the Constituent tree, the      *)
(* parser combinators (word, +, |, @, filter, recursive, whole, star) and  *)
(* the small English grammar built from them.                              *)
(*                                                                         *)
(* A parser is an abstract syntax tree (a record with a "kind"); calling   *)
(* it is the operator Parse, which returns the sequence of pairs           *)
(* <<constituent, remaining tokens>> the generator yields, in order.       *)
(* StarParser.__call__ is also modelled step by step (its while loop),     *)
(* and the recursive descent of NP0 as the chain of its active calls.      *)
(***************************************************************************)
EXTENDS Naturals, Sequences, FiniteSets

VARIABLES
    pc,        \* "idle": nothing called yet; "star_loop": inside the while
               \* loop of StarParser.__call__; "done": the call has returned
    parser,    \* the parser object that was called
    input,     \* the token list the parser was called with
    results,   \* list(parser(input)): the pairs the generator yielded
    tokens,    \* StarParser.__call__: the local variable tokens
    children,  \* StarParser.__call__: the local list children
    stack      \* the token lists of the active (nested) calls of NP0

vars == <<pc, parser, input, results, tokens, children, stack>>

(***************************************************************************)
(* Bounds of the model.                                                    *)
(***************************************************************************)
MaxLen == 3         \* longest token list tried on the engine
MaxIter == 5        \* cap on the iterations of the star loop
MaxGrammarLen == 3  \* longest token list tried on the grammar
MaxDepth == 6       \* cap on the nesting of NP0 calls

SeqsUpTo(S, n) == UNION {[1..k -> S] : k \in 0..n}

(***************************************************************************)
(* Constituent                                                             *)
(***************************************************************************)
NoTag == "<None>"      \* tag=None

Constituent(tag, kids, words) == [tag |-> tag, children |-> kids, words |-> words]

\* Constituent.__add__: a buggy variant that forgets the right operand's words
ConstituentAddDropsWords(self, other) ==
    Constituent(NoTag, <<self, other>>, self.words)

\* Constituent.__add__
ConstituentAdd(self, other) ==
    Constituent(NoTag, <<self, other>>, self.words \o other.words)

\* Constituent.__matmul__ that keeps the old tag
ConstituentMatmulKeepsTag(self, tag) ==
    Constituent(self.tag, self.children, self.words)

\* Constituent.__matmul__
ConstituentMatmul(self, tag) ==
    Constituent(tag, self.children, self.words)

(***************************************************************************)
(* Parser objects                                                          *)
(***************************************************************************)
NoParser == [kind |-> "none"]
Self == [kind |-> "self"]        \* the argument handed to fp by RecursiveParser

WordParser(w) == [kind |-> "word", w |-> w]
SeqParser(p1, p2) == [kind |-> "seq", p1 |-> p1, p2 |-> p2]
AltParser(p1, p2) == [kind |-> "alt", p1 |-> p1, p2 |-> p2]
TagParser(tag, p) == [kind |-> "tag", tag |-> tag, p |-> p]
FilterParser(p) == [kind |-> "filter", pred |-> "base", p |-> p]
FilterValidArticle(p) == [kind |-> "filter", pred |-> "valid_article", p |-> p]
RecursiveParser(body) == [kind |-> "rec", p |-> body]
WholeParser(p) == [kind |-> "whole", p |-> p]
StarParser(p) == [kind |-> "star", p |-> p]

(***************************************************************************)
(* The spelling of the words of the grammar (re.match reads a word's       *)
(* first character).                                                       *)
(***************************************************************************)
Chars(w) ==
    CASE w = "fox" -> <<"f", "o", "x">>
      [] w = "wolf" -> <<"w", "o", "l", "f">>
      [] w = "ant" -> <<"a", "n", "t">>
      [] w = "table" -> <<"t", "a", "b", "l", "e">>
      [] w = "quick" -> <<"q", "u", "i", "c", "k">>
      [] w = "brown" -> <<"b", "r", "o", "w", "n">>
      [] w = "caught" -> <<"c", "a", "u", "g", "h", "t">>
      [] w = "adorable" -> <<"a", "d", "o", "r", "a", "b", "l", "e">>
      [] w = "a" -> <<"a">>
      [] w = "an" -> <<"a", "n">>
      [] w = "the" -> <<"t", "h", "e">>
      [] w = "jump" -> <<"j", "u", "m", "p">>
      [] w = "jumped" -> <<"j", "u", "m", "p", "e", "d">>
      [] w = "b" -> <<"b">>
      [] w = "c" -> <<"c">>

Vowels == {"a", "e", "i", "o", "u"}

\* re.match('[aeiou]', w) as a truth value
ReMatchVowel(w) == Len(Chars(w)) > 0 /\ Chars(w)[1] \in Vowels

\* re.match('[^aeiou]', w) as a truth value
ReMatchNonVowel(w) == Len(Chars(w)) > 0 /\ Chars(w)[1] \notin Vowels

\* FilterValidArticle.predicate with the two articles' tests exchanged
FilterValidArticlePredicateSwapped(c) ==
    IF c.children = <<>> \/ c.children[1].tag # "Compl" THEN TRUE
    ELSE IF c.words[1] = "a" THEN ReMatchVowel(c.words[2])
    ELSE IF c.words[1] = "an" THEN ReMatchNonVowel(c.words[2])
    ELSE TRUE

\* FilterValidArticle.predicate
FilterValidArticlePredicate(c) ==
    IF c.children = <<>> \/ c.children[1].tag # "Compl" THEN TRUE
    ELSE IF c.words[1] = "a" THEN ReMatchNonVowel(c.words[2])
    ELSE IF c.words[1] = "an" THEN ReMatchVowel(c.words[2])
    ELSE TRUE

\* self.predicate(c), dispatched on the class of the filter
Predicate(pred, c) ==
    IF pred = "valid_article" THEN FilterValidArticlePredicate(c) ELSE TRUE

(***************************************************************************)
(* __call__ of each parser class                                           *)
(***************************************************************************)
\* WordParser.__call__ yielding tokens in place of tokens[1:]
WordCallNoSlice(w, toks) ==
    IF Len(toks) > 0 /\ toks[1] = w
    THEN <<  <<Constituent(NoTag, <<>>, <<w>>), toks>>  >>
    ELSE <<>>

\* WordParser.__call__
WordCall(w, toks) ==
    IF Len(toks) > 0 /\ toks[1] = w
    THEN <<  <<Constituent(NoTag, <<>>, <<w>>), Tail(toks)>>  >>
    ELSE <<>>

\* the words of StarParser's result: every word of every child, in order
RECURSIVE ChildrenWords(_)
ChildrenWords(kids) ==
    IF kids = <<>> THEN <<>>
    ELSE Head(kids).words \o ChildrenWords(Tail(kids))

\* StarParser.__call__, the value of its one yield
StarYieldValue(kids, toks) ==
    <<Constituent(NoTag, kids, ChildrenWords(kids)), toks>>

\* SeqParser.__call__, inner loop, leaving after the first result of p2
SeqInnerFirstOnly(c1, tokens1, r2) ==
    IF r2 = <<>> THEN <<>>
    ELSE <<  <<ConstituentAdd(c1, Head(r2)[1]), Head(r2)[2]>>  >>

\* SeqParser.__call__, inner loop, yielding tokens1 in place of tokens2
RECURSIVE SeqInnerYieldsTokens1(_, _, _)
SeqInnerYieldsTokens1(c1, tokens1, r2) ==
    IF r2 = <<>> THEN <<>>
    ELSE <<  <<ConstituentAdd(c1, Head(r2)[1]), tokens1>>  >>
         \o SeqInnerYieldsTokens1(c1, tokens1, Tail(r2))

\* SeqParser.__call__, inner loop: for c2, tokens2 in self.p2(tokens1),
\* where r2 is what self.p2(tokens1) yields
RECURSIVE SeqInner(_, _, _)
SeqInner(c1, tokens1, r2) ==
    IF r2 = <<>> THEN <<>>
    ELSE <<  <<ConstituentAdd(c1, Head(r2)[1]), Head(r2)[2]>>  >>
         \o SeqInner(c1, tokens1, Tail(r2))

\* AltParser.__call__ that stops after p1 when p1 produced something
AltJoinShortCircuit(r1, r2) == IF r1 # <<>> THEN r1 ELSE r2

\* AltParser.__call__: yield from p1, then yield from p2
AltJoin(r1, r2) == r1 \o r2

\* TagParser.__call__ applied to the results of the underlying parser
RECURSIVE TagResults(_, _)
TagResults(tag, r) ==
    IF r = <<>> THEN <<>>
    ELSE <<  <<ConstituentMatmul(Head(r)[1], tag), Head(r)[2]>>  >>
         \o TagResults(tag, Tail(r))

\* FilterParser.__call__ applied to the results of the underlying parser
RECURSIVE FilterResults(_, _)
FilterResults(pred, r) ==
    IF r = <<>> THEN <<>>
    ELSE IF Predicate(pred, Head(r)[1])
         THEN <<Head(r)>> \o FilterResults(pred, Tail(r))
         ELSE FilterResults(pred, Tail(r))

\* WholeParser.__call__ without its test of the remainder
WholeResultsNoTest(r) == r

\* WholeParser.__call__ applied to the results of the underlying parser
RECURSIVE WholeLoop(_)
WholeLoop(r) ==
    IF r = <<>> THEN <<>>
    ELSE IF Head(r)[2] = <<>>
         THEN <<Head(r)>> \o WholeLoop(Tail(r))
         ELSE WholeLoop(Tail(r))

WholeResults(r) == WholeLoop(r)

\* StarParser.__call__ with the break of line 228 missing: the last result
LastResult(r) == IF r = <<>> THEN <<>> ELSE <<r[Len(r)]>>

\* StarParser.__call__, lines 225-228: the first result of p, or None (<<>>)
FirstResult(r) == IF r = <<>> THEN <<>> ELSE <<Head(r)>>

RECURSIVE Parse(_, _, _), SeqLoop(_, _, _), StarLoop(_, _, _, _)

\* p(tokens) for a parser object p; env is the RecursiveParser whose body
\* p belongs to (the object the name Self is bound to), or NoParser
Parse(p, toks, env) ==
    CASE p.kind = "word" -> WordCall(p.w, toks)
      [] p.kind = "seq" -> SeqLoop(Parse(p.p1, toks, env), p.p2, env)
      [] p.kind = "alt" -> AltJoin(Parse(p.p1, toks, env), Parse(p.p2, toks, env))
      [] p.kind = "tag" -> TagResults(p.tag, Parse(p.p, toks, env))
      [] p.kind = "filter" -> FilterResults(p.pred, Parse(p.p, toks, env))
      [] p.kind = "rec" -> Parse(p.p, toks, p)
      [] p.kind = "self" -> Parse(env.p, toks, env)
      [] p.kind = "whole" -> WholeResults(Parse(p.p, toks, env))
      [] p.kind = "star" -> <<StarLoop(p.p, toks, <<>>, env)>>

\* SeqParser.__call__, outer loop: for c1, tokens1 in self.p1(tokens)
SeqLoop(r1, p2, env) ==
    IF r1 = <<>> THEN <<>>
    ELSE SeqInner(Head(r1)[1], Head(r1)[2], Parse(p2, Head(r1)[2], env))
         \o SeqLoop(Tail(r1), p2, env)

\* StarParser.__call__ run to its yield (used when a star parser is the
\* operand of another parser)
StarLoop(p, toks, kids, env) ==
    IF toks = <<>> THEN StarYieldValue(kids, toks)
    ELSE LET result == FirstResult(Parse(p, toks, env))
         IN  IF result = <<>> THEN StarYieldValue(kids, toks)
             ELSE StarLoop(p, result[1][2], Append(kids, result[1][1]), env)

Call(p, toks) == Parse(p, toks, NoParser)


(***************************************************************************)
(* The calls of the placeholder: the token lists on which the enclosing    *)
(* RecursiveParser is called again while p(toks) is enumerated.            *)
(***************************************************************************)
RECURSIVE RecCalls(_, _, _), RecCallsEach(_, _, _)

RecCalls(p, toks, env) ==
    CASE p.kind = "word" -> <<>>
      [] p.kind = "seq" ->
            RecCalls(p.p1, toks, env)
            \o RecCallsEach(Parse(p.p1, toks, env), p.p2, env)
      [] p.kind = "alt" -> RecCalls(p.p1, toks, env) \o RecCalls(p.p2, toks, env)
      [] p.kind \in {"tag", "filter", "whole"} -> RecCalls(p.p, toks, env)
      [] p.kind = "self" -> <<toks>>
      [] p.kind = "rec" -> <<>>

\* SeqParser.__call__: p2 is called on the remainder of every result of p1
RecCallsEach(r1, p2, env) ==
    IF r1 = <<>> THEN <<>>
    ELSE RecCalls(p2, Head(r1)[2], env) \o RecCallsEach(Tail(r1), p2, env)

(***************************************************************************)
(* The grammar                                                             *)
(***************************************************************************)
word(w) == WordParser(w)
recursive(body) == RecursiveParser(body)
whole(p) == WholeParser(p)
star(p) == StarParser(p)

N == TagParser("N",
        AltParser(AltParser(AltParser(word("fox"), word("wolf")), word("ant")),
                  word("table")))
Adj == TagParser("Adj",
        AltParser(AltParser(AltParser(AltParser(word("quick"), word("brown")),
                                      word("table")), word("caught")),
                  word("adorable")))
Compl == TagParser("Compl", AltParser(AltParser(word("a"), word("an")), word("the")))
V == TagParser("V", AltParser(AltParser(word("jump"), word("jumped")), word("caught")))

NP0 == recursive(TagParser("NP", AltParser(N, SeqParser(Adj, Self))))
NP == TagParser("NP", FilterValidArticle(SeqParser(Compl, NP0)))
VP == TagParser("VP", V)
S == TagParser("S", SeqParser(NP, VP))

GrammarWords ==
    {"fox", "wolf", "ant", "table", "quick", "brown", "caught", "adorable",
     "a", "an", "the", "jump", "jumped"}

Sentence == <<"the", "quick", "brown", "fox", "jumped">>

GrammarInputs == SeqsUpTo(GrammarWords, MaxGrammarLen) \cup {Sentence}

\* the words NP0 can match, and one word ("the") that it cannot
DescentWords ==
    {"fox", "wolf", "ant", "table", "quick", "brown", "caught", "adorable", "the"}

DescentInputs ==
    SeqsUpTo(DescentWords, MaxGrammarLen) \cup {Tail(Sentence)}

GrammarRules == {N, Adj, Compl, V, NP0, NP, VP, S, whole(S), SeqParser(Compl, NP0)}

(***************************************************************************)
(* The engine on small parsers over the tokens a, b, c                     *)
(***************************************************************************)
Tokens == {"a", "b", "c"}
Inputs == SeqsUpTo(Tokens, MaxLen)
Tags == {"X", "Y"}

Pa == word("a")
Pb == word("b")

\* the operands handed to the combinators
Pool ==
    { Pa, Pb,
      AltParser(Pa, Pb),
      SeqParser(Pa, Pb),
      AltParser(Pa, SeqParser(Pa, Pb)),
      AltParser(SeqParser(Pa, Pb), Pa),
      AltParser(Pb, TagParser("Y", Pb)),
      TagParser("X", SeqParser(Pa, Pa)),
      FilterParser(Pb),
      WholeParser(AltParser(Pa, SeqParser(Pa, Pb))),
      recursive(AltParser(Pb, SeqParser(Pa, Self))),
      star(Pa),
      star(AltParser(Pa, Pb)) }

\* the bodies handed to recursive()
Bodies ==
    { AltParser(Pb, SeqParser(Pa, Self)),
      TagParser("X", AltParser(Pb, SeqParser(AltParser(Pa, Pb), Self))),
      AltParser(SeqParser(Pa, Self), AltParser(Pa, SeqParser(Pa, Pb))) }

InitCommon ==
    /\ pc = "idle"
    /\ parser = NoParser
    /\ results = <<>>
    /\ tokens = <<>>
    /\ children = <<>>
    /\ stack = <<>>

Init == InitCommon /\ input \in Inputs

\* list(p(input)) for a parser p whose call is modelled in one step
Invoke(p) ==
    /\ pc' = "done"
    /\ parser' = p
    /\ results' = Call(p, input)
    /\ UNCHANGED <<input, tokens, children, stack>>

CallWord ==
    /\ pc = "idle"
    /\ \E w \in Tokens : Invoke(WordParser(w))

CallSeq ==
    /\ pc = "idle"
    /\ \E p1 \in Pool, p2 \in Pool : Invoke(SeqParser(p1, p2))

CallAlt ==
    /\ pc = "idle"
    /\ \E p1 \in Pool, p2 \in Pool : Invoke(AltParser(p1, p2))

CallTag ==
    /\ pc = "idle"
    /\ \E t \in Tags, p \in Pool : Invoke(TagParser(t, p))

CallFilter ==
    /\ pc = "idle"
    /\ \E p \in Pool : Invoke(FilterParser(p))

CallRecursive ==
    /\ pc = "idle"
    /\ \E b \in Bodies : Invoke(RecursiveParser(b))

CallWhole ==
    /\ pc = "idle"
    /\ \E p \in Pool : Invoke(WholeParser(p))

\* StarParser.__call__, entry: children = []
StarBegin ==
    /\ pc = "idle"
    /\ \E p \in Pool : parser' = StarParser(p)
    /\ pc' = "star_loop"
    /\ tokens' = input
    /\ children' = <<>>
    /\ UNCHANGED <<input, results, stack>>

\* StarParser.__call__, one pass through the while loop that does not break
StarIter ==
    /\ pc = "star_loop"
    /\ tokens # <<>>
    /\ Len(children) < MaxIter
    /\ LET result == FirstResult(Call(parser.p, tokens))
       IN  /\ result # <<>>
           /\ children' = Append(children, result[1][1])
           /\ tokens' = result[1][2]
    /\ UNCHANGED <<pc, parser, input, results, stack>>

\* StarParser.__call__, leaving the loop (tokens empty, or break) and yield
StarYield ==
    /\ pc = "star_loop"
    /\ \/ tokens = <<>>
       \/ FirstResult(Call(parser.p, tokens)) = <<>>
    /\ pc' = "done"
    /\ results' = <<StarYieldValue(children, tokens)>>
    /\ UNCHANGED <<parser, input, tokens, children, stack>>

Next ==
    \/ CallWord
    \/ CallSeq
    \/ CallAlt
    \/ CallTag
    \/ CallFilter
    \/ CallRecursive
    \/ CallWhole
    \/ StarBegin
    \/ StarIter
    \/ StarYield

Spec == Init /\ [][Next]_vars

(***************************************************************************)
(* The grammar's rules called on lists of its words                        *)
(***************************************************************************)
InitGrammar == InitCommon /\ input \in GrammarInputs

CallRule ==
    /\ pc = "idle"
    /\ \E p \in GrammarRules : Invoke(p)

NextGrammar == CallRule

SpecGrammar == InitGrammar /\ [][NextGrammar]_vars

(***************************************************************************)
(* The recursive descent of NP0: stack holds one frame per active call of  *)
(* NP0, with the token list it was called on and the calls of NP0 that its *)
(* body has still to make.                                                 *)
(***************************************************************************)
Frame(toks) == [toks |-> toks, pending |-> RecCalls(NP0.p, toks, NP0)]

InitDescent == InitCommon /\ input = <<>>

\* NP0(toks) is called on some token list
NP0Call ==
    /\ pc = "idle"
    /\ \E toks \in DescentInputs :
         /\ input' = toks
         /\ stack' = <<Frame(toks)>>
    /\ pc' = "descent"
    /\ parser' = NP0
    /\ UNCHANGED <<results, tokens, children>>

Top == stack[Len(stack)]

\* the body of the innermost call reaches the placeholder and calls NP0 again
NP0Enter ==
    /\ pc = "descent"
    /\ stack # <<>>
    /\ Top.pending # <<>>
    /\ Len(stack) < MaxDepth
    /\ stack' = Append([stack EXCEPT ![Len(stack)].pending = Tail(@)],
                       Frame(Head(Top.pending)))
    /\ UNCHANGED <<pc, parser, input, results, tokens, children>>

\* the innermost call has no call of NP0 left to make: its generator ends
NP0Return ==
    /\ pc = "descent"
    /\ stack # <<>>
    /\ Top.pending = <<>>
    /\ stack' = SubSeq(stack, 1, Len(stack) - 1)
    /\ pc' = IF Len(stack) = 1 THEN "done" ELSE pc
    /\ UNCHANGED <<parser, input, results, tokens, children>>

NextDescent == NP0Call \/ NP0Enter \/ NP0Return

SpecDescent == InitDescent /\ [][NextDescent]_vars /\ WF_vars(NextDescent)


(***************************************************************************)
(* Properties                                                              *)
(***************************************************************************)
Returned(kind) == pc = "done" /\ parser.kind = kind

\* the number of results SeqParser yields for the first i - 1 results of p1
RECURSIVE SeqOffset(_, _, _)
SeqOffset(r1, p2, i) ==
    IF i = 1 THEN 0
    ELSE SeqOffset(r1, p2, i - 1) + Len(Call(p2, r1[i - 1][2]))

\* C1: SeqParser(p1, p2)(T) yields exactly the pairs (c1 + c2, T2) for every
\* result (c1, T1) of p1(T) and every result (c2, T2) of p2(T1), the
\* combinations of an earlier result of p1 before those of a later one; the
\* number of results is the sum over p1's results of the number of results
\* of p2 on that result's remainder.
C1_SeqCrossProduct ==
    Returned("seq") =>
        LET r1 == Call(parser.p1, input)
            R2(i) == Call(parser.p2, r1[i][2])
        IN  /\ Len(results) = SeqOffset(r1, parser.p2, Len(r1) + 1)
            /\ \A i \in 1..Len(r1) : \A j \in 1..Len(R2(i)) :
                 results[SeqOffset(r1, parser.p2, i) + j] =
                    << [tag |-> NoTag,
                        children |-> <<r1[i][1], R2(i)[j][1]>>,
                        words |-> r1[i][1].words \o R2(i)[j][1].words],
                       R2(i)[j][2] >>

\* p1 has several results, p2 yields nothing on the remainder of one of them
\* and something on the remainder of another
C1_Witness ==
    /\ Returned("seq")
    /\ LET r1 == Call(parser.p1, input)
       IN  /\ Len(r1) >= 2
           /\ \E i \in 1..Len(r1) : Call(parser.p2, r1[i][2]) = <<>>
           /\ \E i \in 1..Len(r1) : Len(Call(parser.p2, r1[i][2])) >= 2

\* C2: the results of AltParser(p1, p2)(T) are the results of p1(T) followed
\* by the results of p2(T), each in its own order; p2 is tried also when p1
\* produced results.
C2_AltConcatenates ==
    Returned("alt") =>
        LET r1 == Call(parser.p1, input)
            r2 == Call(parser.p2, input)
        IN  /\ Len(results) = Len(r1) + Len(r2)
            /\ \A i \in 1..Len(r1) : results[i] = r1[i]
            /\ \A j \in 1..Len(r2) : results[Len(r1) + j] = r2[j]

\* both branches produced results
C2_Witness ==
    /\ Returned("alt")
    /\ Len(Call(parser.p1, input)) >= 2
    /\ Call(parser.p2, input) # <<>>
    /\ Len(results) >= 3

\* the tokens left after the first i children of c, counted from the input
RECURSIVE WordCount(_, _)
WordCount(kids, i) ==
    IF i = 0 THEN 0 ELSE WordCount(kids, i - 1) + Len(kids[i].words)

Rest(toks, n) == SubSeq(toks, n + 1, Len(toks))

\* every result of p on every suffix of toks consumes at least one token
Consuming(p, toks) ==
    \A n \in 0..Len(toks) :
        LET r == Call(p, Rest(toks, n))
        IN  \A i \in 1..Len(r) : Len(r[i][2]) < Len(toks) - n

\* the words of a sequence of constituents, gathered from the last one back
RECURSIVE ConcatWords(_)
ConcatWords(kids) ==
    IF kids = <<>> THEN <<>>
    ELSE ConcatWords(SubSeq(kids, 1, Len(kids) - 1)) \o kids[Len(kids)].words

Leaf(w) == [tag |-> NoTag, children |-> <<>>, words |-> <<w>>]

\* C3: for a parser p whose results each consume a token, star(p)(T) yields
\* one pair (c, R): the children of c are the FIRST results of p on the
\* successive remainders, up to the first remainder that is empty or on
\* which p yields nothing; c.words is the children's words in order, c.tag is
\* absent and R is that remainder.  The three cases of test_star_parser for
\* star(word('a') | word('b')) are stated with it.
C3_StarTakesFirstResults ==
    (Returned("star") /\ Consuming(parser.p, input)) =>
        LET c == results[1][1]
            k == Len(c.children)
            Rem(i) == Rest(input, WordCount(c.children, i))
        IN  /\ Len(results) = 1
            /\ c.tag = NoTag
            /\ \A i \in 1..k :
                 /\ Rem(i - 1) # <<>>
                 /\ Call(parser.p, Rem(i - 1)) # <<>>
                 /\ Call(parser.p, Rem(i - 1))[1] = <<c.children[i], Rem(i)>>
            /\ Rem(k) = <<>> \/ Call(parser.p, Rem(k)) = <<>>
            /\ results[1][2] = Rem(k)
            /\ c.words = ConcatWords(c.children)
            /\ parser = star(AltParser(Pa, Pb)) =>
                 /\ input = <<"a", "b", "c">> =>
                      /\ c.children = <<Leaf("a"), Leaf("b")>>
                      /\ c.words = <<"a", "b">>
                      /\ results[1][2] = <<"c">>
                 /\ input = <<"a", "b", "b">> =>
                      /\ c.children = <<Leaf("a"), Leaf("b"), Leaf("b")>>
                      /\ c.words = <<"a", "b", "b">>
                      /\ results[1][2] = <<>>
                 /\ input = <<"c">> =>
                      /\ c.children = <<>>
                      /\ c.words = <<>>
                      /\ results[1][2] = <<"c">>

\* star has returned for a parser that had a second alternative at the first
\* position, after taking two children and leaving a token
C3_Witness ==
    /\ Returned("star")
    /\ Consuming(parser.p, input)
    /\ Len(Call(parser.p, input)) >= 2
    /\ Len(results[1][1].children) >= 2
    /\ results[1][2] # <<>>

\* C4: star(p)(T) terminates and produces exactly one result for every p,
\* also when the first result of p consumes no token of a non-empty
\* remainder.  The loop is a function of tokens alone, so it terminates
\* exactly when every pass that stays in the loop leaves fewer tokens; the
\* yield that follows the loop must be the only result.
C4_StarTerminatesWithOneResult ==
    [][ /\ (pc = "star_loop" /\ pc' = "star_loop") => Len(tokens') < Len(tokens)
        /\ (pc = "star_loop" /\ pc' = "done") => Len(results') = 1 ]_vars

\* the invariant of the data model, for a constituent and its descendants
RECURSIVE WellFormed(_)
WellFormed(c) ==
    /\ c.children # <<>> => c.words = ConcatWords(c.children)
    /\ \A i \in 1..Len(c.children) : WellFormed(c.children[i])

\* C5: in every constituent of every result, and in every descendant of it,
\* non-empty children imply that words is the concatenation, in order, of
\* the children's words.
C5_WordsAreChildrenWords ==
    /\ \A i \in 1..Len(results) : WellFormed(results[i][1])
    /\ \A i \in 1..Len(children) : WellFormed(children[i])

\* a relabelled result whose children have children
C5_Witness ==
    /\ Returned("tag")
    /\ \E i \in 1..Len(results) :
         LET c == results[i][1]
         IN  /\ c.tag \in Tags
             /\ Len(c.children) >= 2
             /\ \E k \in 1..Len(c.children) : c.children[k].children # <<>>

\* C7: the results of WholeParser(p)(T) are the results of p(T) whose
\* remainder is empty, in p's order, constituent and remainder unchanged.
C7_WholeKeepsEmptyRemainders ==
    Returned("whole") =>
        LET keep(r) == r[2] = <<>>
        IN  /\ results = SelectSeq(Call(parser.p, input), keep)
            /\ \A i \in 1..Len(results) : results[i][2] = <<>>

\* p has a result that consumed everything and one that did not
C7_Witness ==
    /\ Returned("whole")
    /\ results # <<>>
    /\ \E i \in 1..Len(Call(parser.p, input)) : Call(parser.p, input)[i][2] # <<>>

\* C9: for every result (c, R) of a call on T, c.words followed by R is T
\* (so R is a suffix of T); the same holds of the star loop's children and
\* tokens.
C9_WordsThenRemainderIsInput ==
    /\ \A i \in 1..Len(results) :
         /\ results[i][1].words \o results[i][2] = input
         /\ results[i][2] = Rest(input, Len(results[i][1].words))
    /\ pc = "star_loop" => ConcatWords(children) \o tokens = input

\* a sequence returned a result that consumed tokens and left some
C9_Witness ==
    /\ Returned("seq")
    /\ parser.p2.kind = "star"
    /\ \E i \in 1..Len(results) :
         /\ Len(results[i][1].words) >= 2
         /\ results[i][2] # <<>>

Determiners == {"a", "an", "the"}

\* the combination of article and next word that the agreement rule forbids
Disagrees(d, w) ==
    \/ d = "a" /\ Chars(w)[1] \in Vowels
    \/ d = "an" /\ Chars(w)[1] \notin Vowels

\* C6: on a token list that starts with a determiner d followed by w, NP
\* keeps a result of Compl + NP0 exactly when it is not the case that d is
\* 'a' and w starts with a vowel, or d is 'an' and w starts with a consonant;
\* NP accepts a fox and an ant and yields nothing for an fox and a ant.
C6_ArticleAgreement ==
    (pc = "done" /\ parser = NP /\ Len(input) >= 2 /\ input[1] \in Determiners) =>
        LET base == Call(SeqParser(Compl, NP0), input)
        IN  /\ Len(results) = IF Disagrees(input[1], input[2]) THEN 0 ELSE Len(base)
            /\ \A i \in 1..Len(results) :
                 /\ results[i][1] = [base[i][1] EXCEPT !.tag = "NP"]
                 /\ results[i][2] = base[i][2]
            /\ input \in {<<"a", "fox">>, <<"an", "ant">>} => Len(results) >= 1
            /\ input \in {<<"an", "fox">>, <<"a", "ant">>} => results = <<>>

\* NP was called on an article, an adjective that disagrees with it and a
\* noun: Compl + NP0 has a result and the filter rejected it
C6_Witness ==
    /\ pc = "done"
    /\ parser = NP
    /\ Len(input) = 3
    /\ input[1] = "a"
    /\ Disagrees(input[1], input[2])
    /\ Call(SeqParser(Compl, NP0), input) # <<>>
    /\ results = <<>>

\* C8: whole(S) on the quick brown fox jumped yields at least one result; it
\* is tagged S, leaves nothing and its words are the five tokens.
C8_SentenceParses ==
    (pc = "done" /\ parser = whole(S) /\ input = Sentence) =>
        /\ Len(results) >= 1
        /\ \A i \in 1..Len(results) :
             /\ results[i][1].tag = "S"
             /\ results[i][2] = <<>>
             /\ results[i][1].words = <<"the", "quick", "brown", "fox", "jumped">>

\* whole(S) has returned from the sentence with a tree of two children
C8_Witness ==
    /\ pc = "done"
    /\ parser = whole(S)
    /\ input = Sentence
    /\ results # <<>>
    /\ Len(results[1][1].children) = 2

\* C10: every call of NP0 made from within a call of NP0 is made on a token
\* list strictly shorter than the one the enclosing call received, and the
\* enumeration of NP0's results ends.
C10_DescentTerminates ==
    /\ [](\A i \in 1..(Len(stack) - 1) :
            Len(stack[i + 1].toks) < Len(stack[i].toks))
    /\ <>(pc = "done")

\* three calls of NP0 are active, one inside the other
C10_Witness ==
    /\ pc = "descent"
    /\ Len(stack) >= 3
    /\ Len(stack[3].toks) >= 1

=============================================================================
